---- MODULE Spec2Model ----
(***************************************************************************)
(* Campus energy-use dashboard (src/energy_dashboard.py).                  *)
(*                                                                         *)
(* Spec    : one run of main(): ingest_data over the CSV files of the data *)
(*           directory, the four aggregate functions, the construction of  *)
(*           the BuildingManager.                                          *)
(* SpecAgg : the four aggregate functions called, in any order and any     *)
(*           number of times, on an arbitrary dataset (None and the empty  *)
(*           DataFrame included).                                          *)
(*                                                                         *)
(* Timestamps are whole hours counted from a Monday 00:00; kwh values are  *)
(* integers (the code holds them as floats; means are kept as exact        *)
(* fractions <<sum, count>>).  A missing value (NaN / NaT) is the empty    *)
(* sequence, a present value v is <<v>>.                                   *)
(***************************************************************************)
EXTENDS Integers, Sequences, FiniteSets, TLC

VARIABLES
    files,            \* the data directory: file stem -> content of <stem>.csv
    csv_files,        \* ingest_data: the order in which glob lists the files
    idx,              \* ingest_data: position of the for loop in csv_files
    combined_data,    \* ingest_data: list of the per-file DataFrames
    failed_files,     \* ingest_data: list of the names of the failed files
    df,               \* the DataFrame (df_combined in main, df in the aggregates)
    pc,               \* position of main
    daily_totals,     \* result of calculate_daily_totals
    weekly_agg,       \* result of calculate_weekly_aggregates
    building_summary, \* result of building_wise_summary
    peak_hours,       \* result of find_peak_hours
    manager           \* BuildingManager.buildings: name -> meter_readings

vars == <<files, csv_files, idx, combined_data, failed_files, df, pc,
          daily_totals, weekly_agg, building_summary, peak_hours, manager>>

(***************************************************************************)
(* Bounds and input sets                                                   *)
(***************************************************************************)
\* Largest number of raw rows in the data directory (all files together).
MaxRows == 3

\* Largest number of rows of a dataset handed to the aggregate functions.
MaxAggRows == 3

\* The file stems of the data directory, in lexicographic order.
BuildingOrder == <<"A", "B">>

Sources == {BuildingOrder[i] : i \in DOMAIN BuildingOrder}

\* Raw rows of a file that has both columns: the text of each cell.
RawRows ==
    { [timestamp |-> "h14", kwh |-> "1"],
      [timestamp |-> "h20", kwh |-> "2"],
      [timestamp |-> "bad", kwh |-> "1"],
      [timestamp |-> "h14", kwh |-> "abc"],
      [timestamp |-> "h14", kwh |-> "-1"],
      [timestamp |-> "h14", kwh |-> ""] }

\* Rows of a dataset handed directly to the aggregate functions.
AggRows ==
    [timestamp : {14, 20, 350}, kwh : {1, 3}, building : {"A"}]
    \cup { [timestamp |-> 14, kwh |-> 1, building |-> "B"],
           [timestamp |-> 20, kwh |-> 3, building |-> "B"] }

(***************************************************************************)
(* Helpers                                                                 *)
(***************************************************************************)
SeqsUpTo(S, n) == UNION {[1..k -> S] : k \in 0..n}

RECURSIVE Concat(_)
Concat(ss) == IF ss = <<>> THEN <<>> ELSE Head(ss) \o Concat(Tail(ss))

RECURSIVE SumKwh(_)
SumKwh(rows) == IF rows = <<>> THEN 0 ELSE Head(rows).kwh + SumKwh(Tail(rows))

KwhSet(rows) == {rows[i].kwh : i \in DOMAIN rows}

MaxOf(S) == CHOOSE x \in S : \A y \in S : y <= x

MinOf(S) == CHOOSE x \in S : \A y \in S : x <= y

RECURSIVE SortedSeq(_)
SortedSeq(S) ==
    IF S = {} THEN <<>> ELSE <<MinOf(S)>> \o SortedSeq(S \ {MinOf(S)})

\* The DataFrame value None, and a DataFrame with the given columns and rows.
None == [none |-> TRUE, columns |-> <<>>, rows |-> <<>>]

DataFrame(columns, rows) == [none |-> FALSE, columns |-> columns, rows |-> rows]

\* An aggregate result: not computed yet, an exception, or a view.
Unset == [status |-> "unset", rows |-> <<>>]

Raised == [status |-> "error", rows |-> <<>>]

View(rows) == [status |-> "ok", rows |-> rows]

(***************************************************************************)
(* TASK 1: ingest_data                                                     *)
(***************************************************************************)
\* pd.to_datetime(text, errors='coerce'): the time of a text that parses, NaT
\* for every other text (the empty cell included).
to_datetime(text) ==
    CASE text = "h14" -> <<14>>
      [] text = "h20" -> <<20>>
      [] OTHER -> <<>>

\* pd.to_numeric(text, errors='coerce'): the number of a numeric text, NaN
\* for every other text.  A negative number is a number.
to_numeric(text) ==
    CASE text = "1" -> <<1>>
      [] text = "2" -> <<2>>
      [] text = "-1" -> <<-1>>
      [] OTHER -> <<>>

\* The column test of ingest_data (its negation rejects the file).
HasRequiredColumns(columns) == "timestamp" \in columns /\ "kwh" \in columns

\* df['building'] = building_name; df['timestamp'] = pd.to_datetime(...).
TagAndParse(rows, building_name) ==
    [i \in DOMAIN rows |->
        [timestamp |-> to_datetime(rows[i].timestamp),
         kwh |-> rows[i].kwh,
         building |-> building_name]]

\* df.dropna(subset=['timestamp', 'kwh']): an empty kwh cell is NaN.
DropnaTimestampKwh(rows) ==
    SelectSeq(rows, LAMBDA r : r.timestamp # <<>> /\ r.kwh # "")

\* df['kwh'] = pd.to_numeric(df['kwh'], errors='coerce').
CoerceKwh(rows) ==
    [i \in DOMAIN rows |-> [rows[i] EXCEPT !.kwh = to_numeric(rows[i].kwh)]]

\* df.dropna(subset=['kwh']), the surviving cells read as values.
DropnaKwh(rows) ==
    LET kept == SelectSeq(rows, LAMBDA r : r.kwh # <<>>)
    IN  [i \in DOMAIN kept |->
            [timestamp |-> kept[i].timestamp[1],
             kwh |-> kept[i].kwh[1],
             building |-> kept[i].building]]

\* The cleaning steps of one file that has both columns.
CleanRows(rows, building_name) ==
    DropnaKwh(CoerceKwh(DropnaTimestampKwh(TagAndParse(rows, building_name))))

\* FileFails with a file that has no data row treated as a failure too.
FileFails_NoRows(file) ==
    \/ ~file.readable
    \/ ~HasRequiredColumns(file.columns)
    \/ file.rows = <<>>

\* The file is added to failed_files: read_csv raised, or a column is missing.
FileFails(file) ==
    \/ ~file.readable
    \/ ~HasRequiredColumns(file.columns)

\* The body of the for loop for one file: failed, or the cleaned DataFrame.
IngestOne(file_path) ==
    LET file == files[file_path]
    IN  IF FileFails(file)
        THEN [failed |-> TRUE, rows |-> <<>>]
        ELSE [failed |-> FALSE, rows |-> CleanRows(file.rows, file_path)]

\* The sequences that are s reordered by the permutation p of its indices.
Reorder(s, p) == [i \in DOMAIN s |-> s[p[i]]]

IsSortedByTimestamp(s) ==
    \A i, j \in DOMAIN s : i < j => s[i].timestamp <= s[j].timestamp

\* sort_values that leaves the rows in the order of the concatenation.
sort_values_Unsorted(s) == {s}

\* df.sort_values('timestamp'): the default kind is 'quicksort', which is not
\* stable, so rows of equal timestamp come out in any order.
sort_values(s) ==
    {t \in {Reorder(s, p) : p \in Permutations(DOMAIN s)} : IsSortedByTimestamp(t)}

IngestColumns == <<"timestamp", "kwh", "building">>

\* The contents of a file that cannot be read, that lacks the kwh column and
\* that lacks the timestamp column.
Unreadable == [readable |-> FALSE, columns |-> {}, rows |-> <<>>]

NoKwhColumn ==
    [readable |-> TRUE, columns |-> {"timestamp"},
     rows |-> <<[timestamp |-> "h14", kwh |-> ""]>>]

NoTimestampColumn ==
    [readable |-> TRUE, columns |-> {"kwh"},
     rows |-> <<[timestamp |-> "", kwh |-> "1"]>>]

\* A file with both columns that holds the rows of pool owned by s.
WithBothColumns(pool, owner, s) ==
    LET mine == SortedSeq({i \in DOMAIN pool : owner[i] = s})
    IN  [readable |-> TRUE, columns |-> {"timestamp", "kwh"},
         rows |-> [k \in DOMAIN mine |-> pool[mine[k]]]]

\* The kinds of file, and the kinds a directory gives its files: only a file
\* with both columns owns rows of the pool.
Kinds == {"ok", "unreadable", "no_kwh", "no_timestamp"}

KindsFor(pool, owner) ==
    {k \in [Sources -> Kinds] : \A i \in DOMAIN pool : k[owner[i]] = "ok"}

\* The data directory in which the files have the given kinds and the rows of
\* pool belong to the files owner names.
Directory(pool, owner, kind) ==
    [s \in Sources |->
        CASE kind[s] = "unreadable" -> Unreadable
          [] kind[s] = "no_kwh" -> NoKwhColumn
          [] kind[s] = "no_timestamp" -> NoTimestampColumn
          [] OTHER -> WithBothColumns(pool, owner, s)]

\* The orders in which glob can list the files.
Enumerations ==
    {o \in [1..Cardinality(Sources) -> Sources] :
        \A i, j \in DOMAIN o : i # j => o[i] # o[j]}

\* One iteration of `for file_path in csv_files`.
ProcessFile ==
    /\ pc = "ingest"
    /\ idx <= Len(csv_files)
    /\ LET r == IngestOne(csv_files[idx])
       IN  /\ failed_files' =
                  IF r.failed THEN Append(failed_files, csv_files[idx])
                  ELSE failed_files
           /\ combined_data' =
                  IF r.failed THEN combined_data
                  ELSE Append(combined_data, r.rows)
    /\ idx' = idx + 1
    /\ UNCHANGED <<files, csv_files, df, pc, daily_totals, weekly_agg,
                   building_summary, peak_hours, manager>>

\* The end of ingest_data: concat and sort when combined_data is a non-empty
\* list, None otherwise.
IngestReturn ==
    /\ pc = "ingest"
    /\ idx > Len(csv_files)
    /\ IF combined_data # <<>>
       THEN \E s \in sort_values(Concat(combined_data)) :
                df' = DataFrame(IngestColumns, s)
       ELSE df' = None
    /\ pc' = "task1_done"
    /\ UNCHANGED <<files, csv_files, idx, combined_data, failed_files,
                   daily_totals, weekly_agg, building_summary, peak_hours,
                   manager>>

(***************************************************************************)
(* TASK 2: the aggregate functions.  Each is an operator from the dataset  *)
(* it is passed to [df |-> the dataset after the call, result |-> what the *)
(* call returns].  A call on None raises (None has no columns and no       *)
(* methods); nothing in the functions tests for an empty dataset.          *)
(***************************************************************************)
\* df[c] = ...: a new column is appended, an existing one is overwritten.
AddColumn(columns, c) ==
    IF \E i \in DOMAIN columns : columns[i] = c THEN columns
    ELSE Append(columns, c)

\* timestamp.dt.date, timestamp.dt.hour.
DateOf(timestamp) == timestamp \div 24

HourOf(timestamp) == timestamp % 24

\* The W (week ending Sunday) bin of a timestamp.
WeekOf(timestamp) == timestamp \div 168

RowsOf(rows, building_name) ==
    SelectSeq(rows, LAMBDA r : r.building = building_name)

\* The group keys of groupby('building'), sorted.
Buildings(rows) ==
    SelectSeq(BuildingOrder,
              LAMBDA b : \E i \in DOMAIN rows : rows[i].building = b)

Dates(rows) == SortedSeq({DateOf(rows[i].timestamp) : i \in DOMAIN rows})

Hours(rows) == SortedSeq({HourOf(rows[i].timestamp) : i \in DOMAIN rows})

\* groupby(['date', 'building'])['kwh'].sum().reset_index()
DailyGroups(rows) ==
    Concat([i \in DOMAIN Dates(rows) |->
        LET d == Dates(rows)[i]
            onDay == SelectSeq(rows, LAMBDA r : DateOf(r.timestamp) = d)
        IN  [j \in DOMAIN Buildings(onDay) |->
                LET b == Buildings(onDay)[j]
                IN  [date |-> d, building |-> b,
                     total_kwh |-> SumKwh(RowsOf(onDay, b))]]])

calculate_daily_totals(d) ==
    IF d.none THEN [df |-> d, result |-> Raised]
    ELSE [df |-> [d EXCEPT !.columns = AddColumn(d.columns, "date")],
          result |-> View(DailyGroups(d.rows))]

\* One resample('W') bin of one building: sum is 0 and mean, max and min are
\* NaN for a bin without rows.
WeekBin(rows, b, w) ==
    LET inBin == SelectSeq(rows, LAMBDA r : WeekOf(r.timestamp) = w)
    IN  [building |-> b,
         timestamp |-> (w * 7 + 6) * 24,
         total |-> SumKwh(inBin),
         mean |-> IF inBin = <<>> THEN <<>> ELSE <<SumKwh(inBin), Len(inBin)>>,
         max |-> IF inBin = <<>> THEN <<>> ELSE <<MaxOf(KwhSet(inBin))>>,
         min |-> IF inBin = <<>> THEN <<>> ELSE <<MinOf(KwhSet(inBin))>>]

\* groupby('building')['kwh'].resample('W').agg(...): for each building the
\* bins from its first week to its last week, every one of them.
WeeklyGroups(rows) ==
    Concat([i \in DOMAIN Buildings(rows) |->
        LET b == Buildings(rows)[i]
            mine == RowsOf(rows, b)
            weeks == {WeekOf(mine[k].timestamp) : k \in DOMAIN mine}
            first == MinOf(weeks)
            last == MaxOf(weeks)
        IN  [j \in 1..(last - first + 1) |-> WeekBin(mine, b, first + j - 1)]])

\* The function works on df.copy().  What groupby(...).resample('W') does on
\* a DataFrame without rows differs between pandas versions: an empty result
\* or an exception.
calculate_weekly_aggregates(d) ==
    IF d.none THEN {[df |-> d, result |-> Raised]}
    ELSE IF d.rows = <<>>
         THEN {[df |-> d, result |-> View(<<>>)], [df |-> d, result |-> Raised]}
         ELSE {[df |-> d, result |-> View(WeeklyGroups(d.rows))]}

\* groupby('building')['kwh'].agg([sum, mean, max, min, count]).reset_index()
SummaryGroups(rows) ==
    [i \in DOMAIN Buildings(rows) |->
        LET b == Buildings(rows)[i]
            mine == RowsOf(rows, b)
        IN  [building |-> b,
             total_kwh |-> SumKwh(mine),
             mean_kwh |-> <<SumKwh(mine), Len(mine)>>,
             max_kwh |-> MaxOf(KwhSet(mine)),
             min_kwh |-> MinOf(KwhSet(mine)),
             readings_count |-> Len(mine)]]

building_wise_summary(d) ==
    IF d.none THEN [df |-> d, result |-> Raised]
    ELSE [df |-> d, result |-> View(SummaryGroups(d.rows))]

\* groupby(['building', 'hour'])['kwh'].mean().reset_index(): one row per
\* (building, hour), sorted by building and then by hour.
HourlyMeans(rows) ==
    Concat([i \in DOMAIN Buildings(rows) |->
        LET b == Buildings(rows)[i]
            mine == RowsOf(rows, b)
        IN  [j \in DOMAIN Hours(mine) |->
                LET h == Hours(mine)[j]
                    atHour == SelectSeq(mine, LAMBDA r : HourOf(r.timestamp) = h)
                IN  [building |-> b, hour |-> h,
                     kwh |-> <<SumKwh(atHour), Len(atHour)>>]]])

\* Comparison of two means held as <<sum, count>>.
MeanLeq(m, n) == m[1] * n[2] <= n[1] * m[2]

\* idxmax that returns the last row holding the largest mean.
idxmax_Last(means, b) ==
    LET mine == {i \in DOMAIN means : means[i].building = b}
        best == {i \in mine : \A k \in mine : MeanLeq(means[k].kwh, means[i].kwh)}
    IN  MaxOf(best)

\* groupby('building')['kwh'].idxmax() for one building: the index of the
\* first row of the building that holds the largest mean.
idxmax(means, b) ==
    LET mine == {i \in DOMAIN means : means[i].building = b}
        best == {i \in mine : \A k \in mine : MeanLeq(means[k].kwh, means[i].kwh)}
    IN  MinOf(best)

\* peak_hours.loc[peak_hours.groupby('building')['kwh'].idxmax()]
PeakRows(rows) ==
    LET means == HourlyMeans(rows)
    IN  [i \in DOMAIN Buildings(rows) |-> means[idxmax(means, Buildings(rows)[i])]]

find_peak_hours(d) ==
    IF d.none THEN [df |-> d, result |-> Raised]
    ELSE [df |-> [d EXCEPT !.columns = AddColumn(d.columns, "hour")],
          result |-> View(PeakRows(d.rows))]

(***************************************************************************)
(* TASK 3: the object model                                                *)
(***************************************************************************)
\* MeterReading.__init__: pd.to_datetime of a Timestamp and float of a float
\* give the value back.
MeterReading(timestamp, kwh) == [timestamp |-> timestamp, kwh |-> kwh]

\* add_reading that puts the new reading in front.
add_reading_Prepend(meter_readings, timestamp, kwh) ==
    <<MeterReading(timestamp, kwh)>> \o meter_readings

\* Building.add_reading
add_reading(meter_readings, timestamp, kwh) ==
    Append(meter_readings, MeterReading(timestamp, kwh))

\* BuildingManager.add_building: the entry of that name is set or replaced.
add_building(buildings, name, meter_readings) ==
    (name :> meter_readings) @@ buildings

\* df['building'].unique(): the names in order of first appearance.
RECURSIVE unique(_)
unique(rows) ==
    IF rows = <<>> THEN <<>>
    ELSE <<Head(rows).building>>
         \o SelectSeq(unique(Tail(rows)), LAMBDA b : b # Head(rows).building)

\* building_data = df_combined[df_combined['building'] == building_name]
building_data(rows, building_name) == RowsOf(rows, building_name)

\* for _, row in building_data.iterrows(): building.add_reading(...)
RECURSIVE AddReadings(_, _)
AddReadings(meter_readings, data) ==
    IF data = <<>> THEN meter_readings
    ELSE AddReadings(add_reading(meter_readings, Head(data).timestamp, Head(data).kwh),
                     Tail(data))

\* for building_name in df_combined['building'].unique(): ...
RECURSIVE BuildManager(_, _, _)
BuildManager(buildings, names, rows) ==
    IF names = <<>> THEN buildings
    ELSE BuildManager(
             add_building(buildings, Head(names),
                          AddReadings(<<>>, building_data(rows, Head(names)))),
             Tail(names), rows)

(***************************************************************************)
(* main                                                                    *)
(***************************************************************************)
\* if df_combined is None: return
MainExit ==
    /\ pc = "task1_done"
    /\ df.none
    /\ pc' = "exit"
    /\ UNCHANGED <<files, csv_files, idx, combined_data, failed_files, df,
                   daily_totals, weekly_agg, building_summary, peak_hours,
                   manager>>

\* Where main is after a call: an exception ends the run.
After(result, next) == IF result.status = "error" THEN "crashed" ELSE next

DailyTotals ==
    /\ pc = "task1_done"
    /\ ~df.none
    /\ LET r == calculate_daily_totals(df)
       IN  /\ df' = r.df
           /\ daily_totals' = r.result
           /\ pc' = After(r.result, "weekly")
    /\ UNCHANGED <<files, csv_files, idx, combined_data, failed_files,
                   weekly_agg, building_summary, peak_hours, manager>>

WeeklyAggregates ==
    /\ pc = "weekly"
    /\ \E r \in calculate_weekly_aggregates(df) :
           /\ df' = r.df
           /\ weekly_agg' = r.result
           /\ pc' = After(r.result, "summary")
    /\ UNCHANGED <<files, csv_files, idx, combined_data, failed_files,
                   daily_totals, building_summary, peak_hours, manager>>

BuildingSummary ==
    /\ pc = "summary"
    /\ LET r == building_wise_summary(df)
       IN  /\ df' = r.df
           /\ building_summary' = r.result
           /\ pc' = After(r.result, "peak")
    /\ UNCHANGED <<files, csv_files, idx, combined_data, failed_files,
                   daily_totals, weekly_agg, peak_hours, manager>>

PeakHours ==
    /\ pc = "peak"
    /\ LET r == find_peak_hours(df)
       IN  /\ df' = r.df
           /\ peak_hours' = r.result
           /\ pc' = After(r.result, "task3")
    /\ UNCHANGED <<files, csv_files, idx, combined_data, failed_files,
                   daily_totals, weekly_agg, building_summary, manager>>

\* manager = BuildingManager() and the loop that fills it.
BuildModel ==
    /\ pc = "task3"
    /\ manager' = BuildManager(<<>>, unique(df.rows), df.rows)
    /\ pc' = "done"
    /\ UNCHANGED <<files, csv_files, idx, combined_data, failed_files, df,
                   daily_totals, weekly_agg, building_summary, peak_hours>>

Init ==
    /\ \E pool \in SeqsUpTo(RawRows, MaxRows) :
       \E owner \in [DOMAIN pool -> Sources] :
       \E kind \in KindsFor(pool, owner) :
           files = Directory(pool, owner, kind)
    /\ csv_files \in Enumerations
    /\ idx = 1
    /\ combined_data = <<>>
    /\ failed_files = <<>>
    /\ df = None
    /\ pc = "ingest"
    /\ daily_totals = Unset
    /\ weekly_agg = Unset
    /\ building_summary = Unset
    /\ peak_hours = Unset
    /\ manager = <<>>

Next ==
    \/ ProcessFile
    \/ IngestReturn
    \/ MainExit
    \/ DailyTotals
    \/ WeeklyAggregates
    \/ BuildingSummary
    \/ PeakHours
    \/ BuildModel

Spec == Init /\ [][Next]_vars

(***************************************************************************)
(* The aggregate functions on their own: any dataset, any order of calls.  *)
(***************************************************************************)
AggDatasets ==
    {None} \cup {DataFrame(IngestColumns, r) : r \in SeqsUpTo(AggRows, MaxAggRows)}

CallDailyTotals ==
    /\ pc = "agg"
    /\ LET r == calculate_daily_totals(df)
       IN  df' = r.df /\ daily_totals' = r.result
    /\ UNCHANGED <<files, csv_files, idx, combined_data, failed_files, pc,
                   weekly_agg, building_summary, peak_hours, manager>>

CallWeeklyAggregates ==
    /\ pc = "agg"
    /\ \E r \in calculate_weekly_aggregates(df) :
           df' = r.df /\ weekly_agg' = r.result
    /\ UNCHANGED <<files, csv_files, idx, combined_data, failed_files, pc,
                   daily_totals, building_summary, peak_hours, manager>>

CallBuildingSummary ==
    /\ pc = "agg"
    /\ LET r == building_wise_summary(df)
       IN  df' = r.df /\ building_summary' = r.result
    /\ UNCHANGED <<files, csv_files, idx, combined_data, failed_files, pc,
                   daily_totals, weekly_agg, peak_hours, manager>>

CallPeakHours ==
    /\ pc = "agg"
    /\ LET r == find_peak_hours(df)
       IN  df' = r.df /\ peak_hours' = r.result
    /\ UNCHANGED <<files, csv_files, idx, combined_data, failed_files, pc,
                   daily_totals, weekly_agg, building_summary, manager>>

InitAgg ==
    /\ files = [s \in Sources |-> Unreadable]
    /\ csv_files = <<>>
    /\ idx = 1
    /\ combined_data = <<>>
    /\ failed_files = <<>>
    /\ df \in AggDatasets
    /\ pc = "agg"
    /\ daily_totals = Unset
    /\ weekly_agg = Unset
    /\ building_summary = Unset
    /\ peak_hours = Unset
    /\ manager = <<>>

NextAgg ==
    \/ CallDailyTotals
    \/ CallWeeklyAggregates
    \/ CallBuildingSummary
    \/ CallPeakHours

SpecAgg == InitAgg /\ [][NextAgg]_vars

(***************************************************************************)
(* Properties                                                              *)
(***************************************************************************)
\* ingest_data has returned.
Ingested == pc \notin {"ingest", "agg"}

Count(s, x) == Cardinality({i \in DOMAIN s : s[i] = x})

\* C1: every row of the dataset returned by ingest_data has a timestamp and a
\* kwh that is not negative: raw rows with an unparsable timestamp, a
\* non-numeric kwh or a negative kwh are not in it.
C1_RowsValid ==
    (Ingested /\ ~df.none) =>
        /\ \A i \in DOMAIN df.rows :
               df.rows[i].timestamp \in {14, 20} /\ df.rows[i].kwh >= 0
        /\ \A s \in Sources :
               Len(RowsOf(df.rows, s)) =
                   IF files[s].readable /\ files[s].columns = {"timestamp", "kwh"}
                   THEN Cardinality({i \in DOMAIN files[s].rows :
                            /\ files[s].rows[i].timestamp \in {"h14", "h20"}
                            /\ files[s].rows[i].kwh \in {"1", "2"}})
                   ELSE 0

\* C2: when ingest_data has returned, a source is in the failure list exactly
\* when it is unreadable or lacks the timestamp or the kwh column; it is there
\* once and has no row in the dataset; every other source was processed, and a
\* source with both columns and no surviving row is not in the list.
C2_FailureList ==
    Ingested =>
        /\ \A s \in Sources :
               LET rejected == \/ ~files[s].readable
                               \/ "timestamp" \notin files[s].columns
                               \/ "kwh" \notin files[s].columns
               IN  /\ Count(failed_files, s) = IF rejected THEN 1 ELSE 0
                   /\ rejected => RowsOf(df.rows, s) = <<>>
        /\ Len(combined_data) + Len(failed_files) = Cardinality(Sources)

\* A source failed and another one, with both columns, lost all its rows.
C2_Witness ==
    /\ Ingested
    /\ Len(failed_files) = 1
    /\ \E s \in Sources :
           /\ Count(failed_files, s) = 0
           /\ files[s].rows # <<>>
           /\ RowsOf(df.rows, s) = <<>>

\* C3: ingest_data never returns a dataset with zero rows: when no source
\* yields a valid row it returns None.
C3_NoEmptyDataset == (Ingested /\ ~df.none) => df.rows # <<>>

\* C4: the aggregation stage and the model construction are entered only when
\* ingestion left at least one valid row, and the stages run in the order
\* ingestion, aggregation, model construction.
C4_StagesNeedRows ==
    /\ (daily_totals.status # "unset" \/ pc \in {"task3", "done"}) =>
           (Ingested /\ ~df.none /\ df.rows # <<>>)
    /\ pc \in {"task3", "done"} =>
           /\ daily_totals.status = "ok"
           /\ weekly_agg.status = "ok"
           /\ building_summary.status = "ok"
           /\ peak_hours.status = "ok"
    /\ pc # "done" => manager = <<>>

\* The rows of s in ascending timestamp order, ties in their order in s.
StableSort(s) ==
    LET ts == SortedSeq({s[i].timestamp : i \in DOMAIN s})
    IN  Concat([k \in DOMAIN ts |->
                   SelectSeq(s, LAMBDA r : r.timestamp = ts[k])])

\* C5: the dataset returned by ingest_data is sorted by timestamp ascending
\* and rows of equal timestamp keep the order they have in the concatenation
\* of the per-source row sets.
C5_SortedStable ==
    (Ingested /\ ~df.none) =>
        /\ IsSortedByTimestamp(df.rows)
        /\ df.rows = StableSort(Concat(combined_data))

\* C6: no call of an aggregate function changes the dataset passed to it
\* (same rows, same columns, same values).
C6_NoMutation == [][df' = df]_vars

\* C7: an aggregate function called on None or on a dataset without rows
\* raises; it returns no view.
C7_EmptyRaises ==
    (pc = "agg" /\ (df.none \/ df.rows = <<>>)) =>
        /\ daily_totals.status # "ok"
        /\ weekly_agg.status # "ok"
        /\ building_summary.status # "ok"
        /\ peak_hours.status # "ok"

\* The indices of the rows of building b, ascending.
IndicesOf(rows, b) == SortedSeq({i \in DOMAIN rows : rows[i].building = b})

\* C8: after the model construction the BuildingManager holds one Building per
\* distinct building of the dataset and no other, and the readings of each are
\* the dataset rows of that building, one per row, in dataset order.
C8_ManagerMatchesDataset ==
    pc = "done" =>
        /\ DOMAIN manager = {df.rows[i].building : i \in DOMAIN df.rows}
        /\ \A b \in DOMAIN manager :
               LET at == IndicesOf(df.rows, b)
               IN  /\ Len(manager[b]) = Len(at)
                   /\ \A k \in DOMAIN at :
                          /\ manager[b][k].timestamp = df.rows[at[k]].timestamp
                          /\ manager[b][k].kwh = df.rows[at[k]].kwh

\* Two buildings, one of them with two different readings.
C8_Witness ==
    /\ pc = "done"
    /\ Cardinality(DOMAIN manager) = 2
    /\ \E b \in DOMAIN manager :
           Len(manager[b]) >= 2 /\ manager[b][1] # manager[b][2]

\* What ingest_data returns when glob lists the files in the order o.
IngestOutcomes(o) ==
    LET loaded == SelectSeq(o, LAMBDA f : ~IngestOne(f).failed)
        frames == [i \in DOMAIN loaded |-> IngestOne(loaded[i]).rows]
    IN  IF frames # <<>>
        THEN {DataFrame(IngestColumns, s) : s \in sort_values(Concat(frames))}
        ELSE {None}

SameRows(a, b) ==
    /\ Len(a) = Len(b)
    /\ \A i \in DOMAIN a : Count(a, a[i]) = Count(b, a[i])

SameTimestamps(a, b) ==
    /\ Len(a) = Len(b)
    /\ \A i \in DOMAIN a : a[i].timestamp = b[i].timestamp

DistinctTimestamps(a) ==
    \A i, j \in DOMAIN a : i # j => a[i].timestamp # a[j].timestamp

MeanAt(rows, b, h) ==
    LET at == {i \in DOMAIN rows :
                  rows[i].building = b /\ HourOf(rows[i].timestamp) = h}
        sel == SortedSeq(at)
    IN  <<SumKwh([k \in DOMAIN sel |-> rows[sel[k]]]), Cardinality(at)>>

HoursOfBuilding(rows, b) ==
    {HourOf(rows[i].timestamp) : i \in {j \in DOMAIN rows : rows[j].building = b}}

\* C10: find_peak_hours returns one row per building of the dataset; the row
\* names an hour of the building whose mean kwh is the largest of the
\* building's hours, and the lowest such hour, whatever the order of the rows.
C10_PeakHourLowestTied ==
    (pc = "agg" /\ peak_hours.status = "ok") =>
        \A b \in Sources :
            LET out == SelectSeq(peak_hours.rows, LAMBDA r : r.building = b)
                hrs == HoursOfBuilding(df.rows, b)
            IN  IF hrs = {} THEN out = <<>>
                ELSE /\ Len(out) = 1
                     /\ out[1].hour \in hrs
                     /\ out[1].kwh = MeanAt(df.rows, b, out[1].hour)
                     /\ \A h \in hrs :
                            /\ MeanLeq(MeanAt(df.rows, b, h), out[1].kwh)
                            /\ h < out[1].hour =>
                                   ~MeanLeq(out[1].kwh, MeanAt(df.rows, b, h))

\* A building with two hours tied at the largest mean, the later hour first in
\* the dataset, and a second building in the result.
C10_Witness ==
    /\ pc = "agg"
    /\ peak_hours.status = "ok"
    /\ Len(peak_hours.rows) = 2
    /\ Len(df.rows) = 3
    /\ df.rows[1].building = "A" /\ df.rows[1].timestamp = 20
    /\ df.rows[2].building = "A" /\ df.rows[2].timestamp = 14
    /\ df.rows[1].kwh = df.rows[2].kwh

\* The weeks that hold at least one row of building b.
PopulatedWeeks(rows, b) ==
    {WeekOf(rows[i].timestamp) : i \in {j \in DOMAIN rows : rows[j].building = b}}

\* C11: calculate_weekly_aggregates returns, for each building, one row per
\* week that holds at least one of the building's rows and no row for a week
\* that holds none: an empty week between two populated weeks is left out.
C11_EmptyWeeksOmitted ==
    (pc = "agg" /\ weekly_agg.status = "ok") =>
        \A b \in Sources :
            LET out == SelectSeq(weekly_agg.rows, LAMBDA r : r.building = b)
            IN  /\ {WeekOf(out[i].timestamp) : i \in DOMAIN out}
                       = PopulatedWeeks(df.rows, b)
                /\ Len(out) = Cardinality(PopulatedWeeks(df.rows, b))

====
